---------------------------- MODULE Spec2Model ----------------------------
(***************************************************************************)
(* The energy balance stepper of climate-lab-static (class ClimateModel)   *)
(* and the way the page drives it.                                         *)
(*                                                                         *)
(* JavaScript Numbers are IEEE 754 doubles.  They are modelled here as     *)
(* floating-point numbers of the same shape and a narrower width: a value  *)
(* is NaN, +Infinity, -Infinity or a finite m * 10^e with a mantissa m of  *)
(* four significant decimal digits.  Every arithmetic operation rounds its *)
(* exact result to the nearest representable value (ties to even),         *)
(* overflows to an infinity and underflows to zero, and the special values *)
(* combine as IEEE 754 prescribes.  The sign of zero is not modelled.      *)
(***************************************************************************)
EXTENDS Integers, Sequences, FiniteSets

(***************************************************************************)
(* Bounds of the model.                                                    *)
(***************************************************************************)
\* Largest decimal exponent of a finite number (doubles: 308).
MaxExp == 16
\* Calls (updateParams and step together) made on one ClimateModel.
MaxCalls == 4
\* Calls made on each of two ClimateModels that are compared.
MaxPairCalls == 3
\* The timer ticks explored, and the slider, preset and language events
\* explored between them.
MaxTicks == 52
MaxEvents == 1

(***************************************************************************)
(* Numbers.                                                                *)
(***************************************************************************)
MantMin == 10 * 10 * 10
MantMax == 10 * MantMin - 1
MinExp == -MaxExp

NaN == [k |-> "nan", m |-> 0, e |-> 0]
PosInf == [k |-> "inf", m |-> 1, e |-> 0]
NegInf == [k |-> "inf", m |-> -1, e |-> 0]
Zero == [k |-> "fin", m |-> 0, e |-> 0]

IsNaN(x) == x.k = "nan"
IsInf(x) == x.k = "inf"
IsFinite(x) == x.k = "fin"

Abs(n) == IF n < 0 THEN -n ELSE n
Sgn(n) == IF n < 0 THEN -1 ELSE IF n > 0 THEN 1 ELSE 0
Inf(s) == IF s < 0 THEN NegInf ELSE PosInf

RECURSIVE Pow10(_)
Pow10(n) == IF n <= 0 THEN 1 ELSE 10 * Pow10(n - 1)

RECURSIVE NumDigits(_)
NumDigits(n) == IF n < 10 THEN 1 ELSE 1 + NumDigits(n \div 10)

\* The finite number s * q * 10^ex of mantissa q, or what it overflows or
\* underflows to.
Pack(s, q, ex) ==
    IF ex + 3 > MaxExp THEN Inf(s)
    ELSE IF ex + 3 < MinExp THEN Zero
    ELSE [k |-> "fin", m |-> s * q, e |-> ex]

\* A mantissa that rounding has carried to five digits is 10000.
Carry(s, q, ex) == IF q > MantMax THEN Pack(s, MantMin, ex + 1) ELSE Pack(s, q, ex)

\* Round to nearest, ties to even: whether q + rem / (2 half) rounds up.
RoundsUp(q, rem, half, sticky) == rem > half \/ (rem = half /\ (sticky \/ q % 2 = 1))

\* a with its last digits, a % p, rounded off.
Shorten(s, a, ex, p, sticky) ==
    Carry(s, a \div p + (IF RoundsUp(a \div p, a % p, p \div 2, sticky) THEN 1 ELSE 0), ex)

\* a brought to four digits by dropping its last drop digits (or appending
\* -drop zeros).
Scale(s, a, e, drop, sticky) ==
    IF drop > 0 THEN Shorten(s, a, e + drop, Pow10(drop), sticky)
    ELSE Pack(s, a * Pow10(-drop), e + drop)

\* The number nearest to m * 10^e; sticky says that the exact value lies
\* strictly beyond m (away from zero) by less than one unit of m.
Round(m, e, sticky) ==
    IF m = 0 THEN Zero ELSE Scale(Sgn(m), Abs(m), e, NumDigits(Abs(m)) - 4, sticky)

\* A decimal literal of the source: m * 10^e.
Lit(m, e) == Round(m, e, FALSE)

Neg(x) == IF IsNaN(x) THEN NaN ELSE [x EXCEPT !.m = -x.m]

\* hi + lo for finite numbers with hi.e >= lo.e: a term too small to
\* reach the rounding digit is absorbed.
Align(hi, lo) ==
    IF hi.e - lo.e > 5 THEN hi
    ELSE Round(hi.m * Pow10(hi.e - lo.e) + lo.m, lo.e, FALSE)

\* a + b
Add(a, b) ==
    IF IsNaN(a) \/ IsNaN(b) THEN NaN
    ELSE IF IsInf(a) /\ IsInf(b) THEN (IF a.m = b.m THEN a ELSE NaN)
    ELSE IF IsInf(a) THEN a
    ELSE IF IsInf(b) THEN b
    ELSE IF a.m = 0 THEN b
    ELSE IF b.m = 0 THEN a
    ELSE IF a.e >= b.e THEN Align(a, b)
    ELSE Align(b, a)

\* a - b
Sub(a, b) == Add(a, Neg(b))

\* a * b
Mul(a, b) ==
    IF IsNaN(a) \/ IsNaN(b) THEN NaN
    ELSE IF IsInf(a) \/ IsInf(b)
         THEN (IF a.m = 0 \/ b.m = 0 THEN NaN ELSE Inf(Sgn(a.m) * Sgn(b.m)))
    ELSE Round(a.m * b.m, a.e + b.e, FALSE)

\* s * (n / d) * 10^e
Quotient(s, n, d, e) == Round(s * (n \div d), e, n % d # 0)

\* a / b
Div(a, b) ==
    IF IsNaN(a) \/ IsNaN(b) THEN NaN
    ELSE IF IsInf(a) THEN (IF IsInf(b) THEN NaN
                           ELSE Inf(a.m * (IF b.m < 0 THEN -1 ELSE 1)))
    ELSE IF IsInf(b) THEN Zero
    ELSE IF b.m = 0 THEN (IF a.m = 0 THEN NaN ELSE Inf(a.m))
    ELSE Quotient(Sgn(a.m) * Sgn(b.m), Abs(a.m) * Pow10(5), Abs(b.m), a.e - b.e - 5)

\* a < b (false when either is NaN)
Less(a, b) ==
    IF IsNaN(a) \/ IsNaN(b) THEN FALSE
    ELSE IF IsInf(a) \/ IsInf(b)
         THEN (IF IsInf(a) /\ IsInf(b) THEN a.m < b.m
               ELSE IF IsInf(a) THEN a.m < 0 ELSE b.m > 0)
    ELSE IF a.m = 0 \/ b.m = 0 \/ Sgn(a.m) # Sgn(b.m) THEN a.m < b.m
    ELSE IF a.m > 0 THEN a.e < b.e \/ (a.e = b.e /\ a.m < b.m)
    ELSE a.e > b.e \/ (a.e = b.e /\ a.m < b.m)

\* a <= b (false when either is NaN)
LessEq(a, b) == ~IsNaN(a) /\ ~IsNaN(b) /\ ~Less(b, a)

\* Math.min(a, b), Math.max(a, b): NaN when either argument is NaN.
MathMin(a, b) == IF IsNaN(a) \/ IsNaN(b) THEN NaN ELSE IF Less(b, a) THEN b ELSE a
MathMax(a, b) == IF IsNaN(a) \/ IsNaN(b) THEN NaN ELSE IF Less(a, b) THEN b ELSE a

\* Math.pow(x, 4)
Square(x) == Mul(x, x)
MathPow4(x) == Square(Square(x))

\* n / d in units of 10^-5, for n in units of 10^-4 of d's.
Ratio(n, d) == 10 * (n \div d) + (10 * (n % d)) \div d

\* 2 z (1 + z2/3 + z2^2/5 + z2^3/7 + z2^4/9), all in units of 10^-5.
LnSum(z, z2, z4) ==
    (2 * z * ((Pow10(5) + z2 \div 3 + z4 \div 5 + ((z4 * z2) \div Pow10(5)) \div 7
               + ((z4 * z4) \div Pow10(5)) \div 9) \div 10)) \div Pow10(4)
LnSquares(z, z2) == LnSum(z, z2, (z2 * z2) \div Pow10(5))
LnOfZ(z) == LnSquares(z, (z * z) \div Pow10(5))

\* ln y for 1 <= y < 2, both in units of 10^-5: the series of
\* 2 artanh z with z = (y - 1) / (y + 1).
LnSeries(y) == LnOfZ(Ratio((y - Pow10(5)) * Pow10(4), y + Pow10(5)))

\* ln y for 1 <= y < 10, in units of 10^-5 (ln 2 = 0.69315).
RECURSIVE LnMant(_)
LnMant(y) == IF y >= 2 * Pow10(5) THEN 69315 + LnMant(y \div 2) ELSE LnSeries(y)

\* Math.log(x): NaN below zero, -Infinity at zero (ln 10 = 2.30259).
MathLog(x) ==
    IF IsNaN(x) THEN NaN
    ELSE IF IsInf(x) THEN (IF x.m > 0 THEN PosInf ELSE NaN)
    ELSE IF x.m < 0 THEN NaN
    ELSE IF x.m = 0 THEN NegInf
    ELSE Round(LnMant(x.m * 100) + (x.e + 3) * 230259, -5, FALSE)

(***************************************************************************)
(* JavaScript values handed to the model: numbers, strings (a range        *)
(* input's value is a string), null and undefined.  A string is the        *)
(* sequence of its characters; the strings of the model hold no white      *)
(* space and no exponent part.                                             *)
(***************************************************************************)
Undefined == [t |-> "undefined", n |-> Zero, s |-> <<>>]
Null == [t |-> "null", n |-> Zero, s |-> <<>>]
Num(x) == [t |-> "number", n |-> x, s |-> <<>>]
Str(chars) == [t |-> "string", n |-> Zero, s |-> chars]

Digits == <<"0", "1", "2", "3", "4", "5", "6", "7", "8", "9">>
IsDigit(c) == \E i \in 1..10 : Digits[i] = c
DigitVal(c) == (CHOOSE i \in 1..10 : Digits[i] = c) - 1

\* The digits and decimal point of s from position i on: acc is the value
\* of the digits read, frac the number of them behind the point.
RECURSIVE ParseDecimal(_, _, _, _, _, _)
ParseDecimal(s, i, acc, frac, seenDot, seenDigit) ==
    IF i > Len(s) THEN (IF seenDigit THEN Round(acc, -frac, FALSE) ELSE NaN)
    ELSE IF s[i] = "." THEN (IF seenDot THEN NaN
                             ELSE ParseDecimal(s, i + 1, acc, frac, TRUE, seenDigit))
    ELSE IF IsDigit(s[i])
         THEN ParseDecimal(s, i + 1, 10 * acc + DigitVal(s[i]),
                           IF seenDot THEN frac + 1 ELSE frac, seenDot, TRUE)
    ELSE NaN

InfinityChars == <<"I", "n", "f", "i", "n", "i", "t", "y">>

\* A numeric literal without its sign.
Unsigned(s) ==
    IF s = InfinityChars THEN PosInf ELSE ParseDecimal(s, 1, 0, 0, FALSE, FALSE)

\* Number(string): the empty string is 0, a string that is no numeric
\* literal is NaN.
StringToNumber(s) ==
    IF s = <<>> THEN Zero
    ELSE IF s[1] = "-" THEN Neg(Unsigned(Tail(s)))
    ELSE IF s[1] = "+" THEN Unsigned(Tail(s))
    ELSE Unsigned(s)

\* Number(v)
ToNumber(v) ==
    CASE v.t = "number" -> v.n
      [] v.t = "string" -> StringToNumber(v.s)
      [] v.t = "null" -> Zero
      [] OTHER -> NaN

(***************************************************************************)
(* Numbers written out: Number.prototype.toFixed and the string a number   *)
(* becomes when it is assigned to innerText or to an input's value.        *)
(***************************************************************************)
NaNChars == <<"N", "a", "N">>
Zeros(n) == [i \in 1..n |-> "0"]
Signed(x, chars) == IF x.m < 0 THEN <<"-">> \o chars ELSE chars

\* The decimal digits of the natural number n.
RECURSIVE NatChars(_)
NatChars(n) == IF n < 10 THEN <<Digits[n + 1]>>
               ELSE Append(NatChars(n \div 10), Digits[(n % 10) + 1])

\* A mantissa and exponent without the mantissa's trailing zeros.
RECURSIVE Strip(_, _)
Strip(a, e) == IF a # 0 /\ a % 10 = 0 THEN Strip(a \div 10, e + 1) ELSE [m |-> a, e |-> e]

\* Number::toString of the positive finite number whose digits are s and
\* whose decimal point stands behind digit n of them.
Plain(s, n) ==
    IF Len(s) <= n THEN s \o Zeros(n - Len(s))
    ELSE IF n > 0 THEN SubSeq(s, 1, n) \o <<".">> \o SubSeq(s, n + 1, Len(s))
    ELSE <<"0", ".">> \o Zeros(-n) \o s
Exponential(s, n) ==
    (IF Len(s) = 1 THEN s ELSE <<s[1], ".">> \o Tail(s))
      \o <<"e", IF n - 1 < 0 THEN "-" ELSE "+">> \o NatChars(Abs(n - 1))
Positional(s, n) == IF -6 < n /\ n <= 21 THEN Plain(s, n) ELSE Exponential(s, n)
Stripped(p) == Positional(NatChars(p.m), NumDigits(p.m) + p.e)

\* String(x) for a number x
NumberToString(x) ==
    IF IsNaN(x) THEN NaNChars
    ELSE IF IsInf(x) THEN Signed(x, InfinityChars)
    ELSE IF x.m = 0 THEN <<"0">>
    ELSE Signed(x, Stripped(Strip(Abs(x.m), x.e)))

\* String(v)
ToStringValue(v) ==
    CASE v.t = "number" -> NumberToString(v.n)
      [] v.t = "string" -> v.s
      [] v.t = "null" -> <<"n", "u", "l", "l">>
      [] OTHER -> <<"u", "n", "d", "e", "f", "i", "n", "e", "d">>

\* The integer nearest to a * 10^g, the larger one of two equally near, in
\* digits.
FixedDigits(a, g) ==
    IF a = 0 THEN <<"0">>
    ELSE IF g >= 0 THEN NatChars(a) \o Zeros(g)
    ELSE IF -g > 5 THEN <<"0">>
    ELSE NatChars((a + Pow10(-g) \div 2) \div Pow10(-g))

\* digits with a decimal point before the last f of them
PointAt(chars, f) ==
    IF f = 0 THEN chars
    ELSE IF Len(chars) <= f THEN <<"0", ".">> \o Zeros(f - Len(chars)) \o chars
    ELSE SubSeq(chars, 1, Len(chars) - f) \o <<".">>
           \o SubSeq(chars, Len(chars) - f + 1, Len(chars))

\* x.toFixed(f)
toFixed(x, f) ==
    IF IsNaN(x) THEN NaNChars
    ELSE IF IsInf(x) \/ x.e + 3 >= 21 THEN NumberToString(x)
    ELSE Signed(x, PointAt(FixedDigits(Abs(x.m), x.e + f), f))

(***************************************************************************)
(* class ClimateModel                                                      *)
(***************************************************************************)
constructor ==
    [co2 |-> Lit(400, 0),
     albedo |-> Lit(3, -1),
     solarIntensity |-> Lit(1361, 0),
     forestCover |-> Lit(30, 0),
     sigma |-> Lit(567, -10),
     preIndustrialCO2 |-> Lit(280, 0),
     temperature |-> Lit(15, 0),
     targetTemperature |-> Lit(15, 0)]

\* The parameter objects: a key that is absent reads as undefined.
Keys == {"co2", "albedo", "solar", "forest"}
NoParams == [key \in Keys |-> Undefined]

\* Faulty variant of updateParams: the albedo is kept within [0, 1].
updateParamsClamped(this, params) ==
    [this EXCEPT
       !.co2 = IF params.co2 # Undefined THEN ToNumber(params.co2) ELSE @,
       !.albedo = IF params.albedo # Undefined
                  THEN MathMax(Zero, MathMin(Lit(1, 0), ToNumber(params.albedo))) ELSE @,
       !.solarIntensity = IF params.solar # Undefined THEN ToNumber(params.solar) ELSE @,
       !.forestCover = IF params.forest # Undefined THEN ToNumber(params.forest) ELSE @]

\* Faulty variant of updateParams: new parameters restart the simulation.
updateParamsRestart(this, params) ==
    [this EXCEPT
       !.co2 = IF params.co2 # Undefined THEN ToNumber(params.co2) ELSE @,
       !.albedo = IF params.albedo # Undefined THEN ToNumber(params.albedo) ELSE @,
       !.solarIntensity = IF params.solar # Undefined THEN ToNumber(params.solar) ELSE @,
       !.forestCover = IF params.forest # Undefined THEN ToNumber(params.forest) ELSE @,
       !.temperature = Lit(15, 0)]

updateParams(this, params) ==
    [this EXCEPT
       !.co2 = IF params.co2 # Undefined THEN ToNumber(params.co2) ELSE @,
       !.albedo = IF params.albedo # Undefined THEN ToNumber(params.albedo) ELSE @,
       !.solarIntensity = IF params.solar # Undefined THEN ToNumber(params.solar) ELSE @,
       !.forestCover = IF params.forest # Undefined THEN ToNumber(params.forest) ELSE @]

incomingSolar(this) == Div(this.solarIntensity, Lit(4, 0))

absorbedSolar(this, incoming) == Mul(incoming, Sub(Lit(1, 0), this.albedo))

\* Faulty variant of reflectedSolar: the share that is not reflected.
reflectedSolarShare(this, incoming) == Mul(incoming, Sub(Lit(1, 0), this.albedo))

reflectedSolar(this, incoming) == Mul(incoming, this.albedo)

\* Faulty variant of forcingCO2: a concentration that has no logarithm
\* counts as the pre-industrial one.
forcingCO2Guarded(this) ==
    IF LessEq(this.co2, Zero) THEN Zero
    ELSE Mul(Lit(535, -2), MathLog(Div(this.co2, this.preIndustrialCO2)))

\* Faulty variant of forcingCO2: the forest takes up part of the CO2.
forcingCO2Forest(this) ==
    Mul(Lit(535, -2), MathLog(Div(Sub(this.co2, this.forestCover), this.preIndustrialCO2)))

forcingCO2(this) == Mul(Lit(535, -2), MathLog(Div(this.co2, this.preIndustrialCO2)))

emissivity(forcing) ==
    MathMax(Lit(5, -1), MathMin(Lit(7, -1), Sub(Lit(61, -2), Mul(forcing, Lit(5, -3)))))

\* Faulty variant of currentTempK: the temperature is left in Celsius.
currentTempCelsius(this) == this.temperature

currentTempK(this) == Add(this.temperature, Lit(27315, -2))

outgoingRad(this, emis, tempK) == Mul(Mul(emis, this.sigma), MathPow4(tempK))

netEnergy(absorbed, outgoing) == Sub(absorbed, outgoing)

heatCapacity == Lit(50, 0)

\* The default parameter dt = 0.1 stands in for undefined; the product
\* coerces any other value to a number.
stepSize(dt) == IF dt = Undefined THEN Lit(1, -1) ELSE ToNumber(dt)

\* Faulty variant of tempChange: + in the place of *.
tempChangeSum(net, dt) == Add(Div(net, heatCapacity), stepSize(dt))

tempChange(net, dt) == Mul(Div(net, heatCapacity), stepSize(dt))

\* step(dt): the model after the call (this) and the object returned (ret).
step(this, dt) ==
    LET incoming == incomingSolar(this)
        absorbed == absorbedSolar(this, incoming)
        emis == emissivity(forcingCO2(this))
        outgoing == outgoingRad(this, emis, currentTempK(this))
        net == netEnergy(absorbed, outgoing)
        after == [this EXCEPT !.temperature = Add(@, tempChange(net, dt))]
    IN  [this |-> after,
         ret |-> [temp |-> after.temperature,
                  netEnergy |-> net,
                  absorbed |-> absorbed,
                  reflected |-> reflectedSolar(after, incoming),
                  outgoing |-> outgoing,
                  incoming |-> incoming]]

(***************************************************************************)
(* The callers' inputs.                                                    *)
(***************************************************************************)
\* App.loadPreset: the parameter object of each preset; any other name
\* leaves it empty.
presetParams(name) ==
    CASE name = "pre-industrial" ->
           [co2 |-> Num(Lit(280, 0)), albedo |-> Num(Lit(32, -2)),
            solar |-> Num(Lit(1361, 0)), forest |-> Num(Lit(50, 0))]
      [] name = "modern" ->
           [co2 |-> Num(Lit(420, 0)), albedo |-> Num(Lit(30, -2)),
            solar |-> Num(Lit(1361, 0)), forest |-> Num(Lit(30, 0))]
      [] name = "extreme" ->
           [co2 |-> Num(Lit(600, 0)), albedo |-> Num(Lit(25, -2)),
            solar |-> Num(Lit(1365, 0)), forest |-> Num(Lit(10, 0))]
      [] OTHER -> NoParams

PresetNames == {"pre-industrial", "modern", "extreme", "none"}

\* App.handleInput: { [key]: value }
inputParams(key, value) == [NoParams EXCEPT ![key] = value]

\* A caller that balances the budget of a new model: no reflection, and
\* four times the radiation the new model's first step reports.
balanceParams ==
    [NoParams EXCEPT !.albedo = Null,
                     !.solar = Num(Mul(Lit(4, 0), step(constructor, Undefined).ret.outgoing))]

\* What the sliders send, and what a caller of the class may send besides.
InputParams ==
    {inputParams("co2", Str(<<"2", "8", "0">>)),
     inputParams("albedo", Str(<<"0", ".", "2", "7">>)),
     inputParams("forest", Str(<<"7", "5">>)),
     inputParams("co2", Num(Zero)),
     inputParams("co2", Str(<<"-", "5">>)),
     inputParams("albedo", Num(Lit(-1, -1))),
     inputParams("solar", Str(<<"I", "n", "f", "i", "n", "i", "t", "y">>)),
     balanceParams}

ParamsSet == {presetParams(n) : n \in PresetNames} \cup InputParams

\* step(), step(0.5) as App.startLoop calls it, step(Infinity)
StepSizes == {Undefined, Num(Lit(5, -1)), Num(PosInf)}

\* The forest values a second caller sends in the place of the first's.
ForestInputs == {Undefined, Str(<<"7", "5">>), Num(Lit(10, 0))}

(***************************************************************************)
(* class EarthScene: of the scene, the values updateState computes from    *)
(* the snapshot it is given.  A colour is held as the weight of the lerp   *)
(* that mixed it: the earth's tint between brown (0) and green (1), the    *)
(* sky between clean (0) and smog (1).                                     *)
(***************************************************************************)
MathPI == Lit(3142, -3)
MathAbs(x) == IF IsFinite(x) \/ IsInf(x) THEN [x EXCEPT !.m = Abs(x.m)] ELSE NaN

\* The scene as its constructor leaves it: the earth material untinted.
EarthScene ==
    [simulationState |-> [temp |-> NaN, co2 |-> NaN, forest |-> NaN],
     currentIceAngle |-> Lit(4, -1),
     endPhi |-> Lit(4, -1),
     earthTint |-> Undefined,
     opacity |-> Lit(2, -1),
     sky |-> Zero]

iceAngle(temp) ==
    IF Less(Lit(25, 0), temp) THEN Zero
    ELSE IF Less(temp, Lit(-20, 0)) THEN Div(MathPI, Lit(2, 0))
    ELSE Mul(Div(Sub(Lit(25, 0), temp), Lit(45, 0)), Div(MathPI, Lit(2, 0)))

\* The throttle: the caps are rebuilt when the angle moved by more than 0.01.
iceMoved(this, angle) == Less(Lit(1, -2), MathAbs(Sub(this.currentIceAngle, angle)))

co2Norm(co2) == Div(Sub(co2, Lit(280, 0)), Sub(Lit(600, 0), Lit(280, 0)))

\* updateState(simulationState); simulationState is kept as it was received.
updateState(this, simulationState) ==
    [this EXCEPT
       !.simulationState = simulationState,
       !.currentIceAngle = IF iceMoved(this, iceAngle(simulationState.temp))
                           THEN iceAngle(simulationState.temp) ELSE @,
       !.endPhi = IF iceMoved(this, iceAngle(simulationState.temp))
                  THEN MathMax(Lit(1, -3), iceAngle(simulationState.temp)) ELSE @,
       !.earthTint = Num(Div(simulationState.forest, Lit(100, 0))),
       !.opacity = Add(Lit(2, -1), Mul(co2Norm(simulationState.co2), Lit(3, -1))),
       !.sky = co2Norm(simulationState.co2)]

(***************************************************************************)
(* class ClimateGraphs: the temperature chart's labels and data, and the   *)
(* balance chart's data.                                                   *)
(***************************************************************************)
ClimateGraphs ==
    [maxPoints |-> 50,
     timeLabel |-> 0,
     labels |-> <<>>,
     data |-> <<>>,
     balance |-> <<Lit(240, 0), Lit(240, 0)>>]

\* The push has made the label array longer than maxPoints.
overfull(this) == Len(this.labels) + 1 > this.maxPoints

\* Faulty variant of graphsUpdate: the labels are shifted, the data are not.
graphsUpdateLabelsOnly(this, stats) ==
    [this EXCEPT
       !.timeLabel = @ + 1,
       !.labels = IF overfull(this) THEN Tail(Append(@, this.timeLabel + 1))
                  ELSE Append(@, this.timeLabel + 1),
       !.data = Append(@, stats.temp),
       !.balance = <<stats.absorbed, stats.outgoing>>]

\* update(stats)
graphsUpdate(this, stats) ==
    [this EXCEPT
       !.timeLabel = @ + 1,
       !.labels = IF overfull(this) THEN Tail(Append(@, this.timeLabel + 1))
                  ELSE Append(@, this.timeLabel + 1),
       !.data = IF overfull(this) THEN Tail(Append(@, stats.temp))
                ELSE Append(@, stats.temp),
       !.balance = <<stats.absorbed, stats.outgoing>>]

(***************************************************************************)
(* class App: the page's value displays and sliders, as the handlers       *)
(* write them.  The text the page itself puts there is not in the source   *)
(* and is empty here; so is the browser's own adjustment of a value        *)
(* assigned to a slider.                                                   *)
(***************************************************************************)
DisplayKeys == Keys \cup {"temp", "balance", "flowIn", "flowReflected", "flowOut"}
initDisplays == [innerText |-> [key \in DisplayKeys |-> <<>>], tempColor |-> <<>>]
initInputs == [key \in Keys |-> <<>>]

Red == <<"#", "f", "8", "7", "1", "7", "1">>
Blue == <<"#", "3", "8", "b", "d", "f", "8">>
White == <<"#", "f", "1", "f", "5", "f", "9">>

\* stats.incoming - stats.reflected - stats.outgoing
balance(stats) == Sub(Sub(stats.incoming, stats.reflected), stats.outgoing)
balanceDisplay(b) ==
    IF Less(MathAbs(b), Lit(1, -1)) THEN <<"0", ".", "0">> ELSE toFixed(b, 1)
tempColor(temp) ==
    IF Less(Lit(17, 0), temp) THEN Red
    ELSE IF Less(temp, Lit(12, 0)) THEN Blue
    ELSE White

\* updateUI(stats)
updateUI(displays, stats) ==
    [innerText |-> [displays.innerText EXCEPT
                      !.temp = toFixed(stats.temp, 1),
                      !.balance = balanceDisplay(balance(stats)),
                      !.flowIn = toFixed(stats.incoming, 0),
                      !.flowReflected = toFixed(stats.reflected, 0),
                      !.flowOut = toFixed(stats.outgoing, 0)],
     tempColor |-> tempColor(stats.temp)]

\* The displays and sliders after the values of params were written to them.
shown(texts, params) ==
    [key \in DOMAIN texts |->
       IF key \in Keys /\ params[key] # Undefined THEN ToStringValue(params[key])
       ELSE texts[key]]

\* The languages the language switcher may send; translations holds those
\* that have a table.  The tables are imported from locales.js: "id" is the
\* language the constructor sets, "en" stands for any other language with a
\* table, "xx" for one without.
Languages == {"id", "en", "xx"}
translations == {"id", "en"}

\* What the page's sliders and preset pills send.
SliderInputs == {<<"co2", Str(<<"6", "0", "0">>)>>, <<"forest", Str(<<"7", "5">>)>>}
PresetPills == {"pre-industrial", "none"}
TickSize == Num(Lit(5, -1))

(***************************************************************************)
(* One ClimateModel and its callers; and, for the comparison of two runs,  *)
(* a second ClimateModel whose caller sends other forest values.           *)
(***************************************************************************)
VARIABLES
    model,       \* the ClimateModel
    stats,       \* what its last step returned
    call,        \* the last call made: its name and arguments
    calls,       \* the number of calls made
    latest,      \* per key, the last value updateParams was given
    other,       \* the second ClimateModel
    otherStats,  \* what its last step returned
    scene,       \* the App's EarthScene
    graphs,      \* the App's ClimateGraphs
    samples,     \* the temperatures ClimateGraphs.update was given, in order
    displays,    \* the App's value displays
    inputs,      \* the value of each slider
    language,    \* the language whose texts are on show
    events       \* the number of slider, preset and language events handled

appVars == <<scene, graphs, samples, displays, inputs, language, events>>

vars == <<model, stats, call, calls, latest, other, otherStats, appVars>>

NoStats == [temp |-> NaN, netEnergy |-> NaN, absorbed |-> NaN,
            reflected |-> NaN, outgoing |-> NaN, incoming |-> NaN]

Init ==
    /\ model = constructor
    /\ stats = NoStats
    /\ call = [op |-> "new", params |-> NoParams, dt |-> Undefined]
    /\ calls = 0
    /\ latest = NoParams
    /\ other = constructor
    /\ otherStats = NoStats
    /\ scene = EarthScene
    /\ graphs = ClimateGraphs
    /\ samples = <<>>
    /\ displays = initDisplays
    /\ inputs = initInputs
    /\ language = "id"
    /\ events = 0

Provided(params) ==
    [key \in Keys |-> IF params[key] # Undefined THEN params[key] ELSE latest[key]]

UpdateParams(params) ==
    /\ calls < MaxCalls
    /\ model' = updateParams(model, params)
    /\ call' = [op |-> "updateParams", params |-> params, dt |-> Undefined]
    /\ calls' = calls + 1
    /\ latest' = Provided(params)
    /\ UNCHANGED <<stats, other, otherStats, appVars>>

\* Faulty variant of Step: a temperature that is no number is reset first.
StepRecovering(dt) ==
    /\ calls < MaxCalls
    /\ \E from \in {IF IsFinite(model.temperature) THEN model
                    ELSE [model EXCEPT !.temperature = Lit(15, 0)]} :
          /\ model' = step(from, dt).this
          /\ stats' = step(from, dt).ret
    /\ call' = [op |-> "step", params |-> NoParams, dt |-> dt]
    /\ calls' = calls + 1
    /\ UNCHANGED <<latest, other, otherStats, appVars>>

Step(dt) ==
    /\ calls < MaxCalls
    /\ model' = step(model, dt).this
    /\ stats' = step(model, dt).ret
    /\ call' = [op |-> "step", params |-> NoParams, dt |-> dt]
    /\ calls' = calls + 1
    /\ UNCHANGED <<latest, other, otherStats, appVars>>

Next ==
    \/ \E params \in ParamsSet : UpdateParams(params)
    \/ \E dt \in StepSizes : Step(dt)

Spec == Init /\ [][Next]_vars

(***************************************************************************)
(* Two models driven alike except for the forest values: both receive the  *)
(* same co2, albedo and solar updates and the same steps.                  *)
(***************************************************************************)
PairUpdateParams(params, forest) ==
    /\ calls < MaxPairCalls
    /\ model' = updateParams(model, params)
    /\ other' = updateParams(other, [params EXCEPT !.forest = forest])
    /\ call' = [op |-> "updateParams", params |-> params, dt |-> Undefined]
    /\ calls' = calls + 1
    /\ latest' = Provided(params)
    /\ UNCHANGED <<stats, otherStats, appVars>>

PairStep(dt) ==
    /\ calls < MaxPairCalls
    /\ model' = step(model, dt).this
    /\ stats' = step(model, dt).ret
    /\ other' = step(other, dt).this
    /\ otherStats' = step(other, dt).ret
    /\ call' = [op |-> "step", params |-> NoParams, dt |-> dt]
    /\ calls' = calls + 1
    /\ UNCHANGED <<latest, appVars>>

PairNext ==
    \/ \E params \in ParamsSet, forest \in ForestInputs : PairUpdateParams(params, forest)
    \/ \E dt \in StepSizes : PairStep(dt)

PairSpec == Init /\ [][PairNext]_vars

(***************************************************************************)
(* The App: its timer's tick and the handlers of its sliders, preset       *)
(* pills and language switcher.  Each runs to its end before the next      *)
(* starts: none of them awaits or yields.                                  *)
(***************************************************************************)
\* What the tick hands to scene.updateState.
simulationState(this, snapshot) ==
    [temp |-> snapshot.temp, co2 |-> this.co2, forest |-> this.forestCover]

\* Faulty variant of Tick: the scene is given the snapshot of the tick
\* before.
TickStale ==
    /\ graphs.timeLabel < MaxTicks
    /\ model' = step(model, TickSize).this
    /\ stats' = step(model, TickSize).ret
    /\ displays' = updateUI(displays, stats')
    /\ scene' = updateState(scene, simulationState(model', stats))
    /\ graphs' = graphsUpdate(graphs, stats')
    /\ samples' = Append(samples, stats'.temp)
    /\ call' = [op |-> "tick", params |-> NoParams, dt |-> TickSize]
    /\ UNCHANGED <<calls, latest, other, otherStats, inputs, language, events>>

\* The callback of startLoop's setInterval.
Tick ==
    /\ graphs.timeLabel < MaxTicks
    /\ model' = step(model, TickSize).this
    /\ stats' = step(model, TickSize).ret
    /\ displays' = updateUI(displays, stats')
    /\ scene' = updateState(scene, simulationState(model', stats'))
    /\ graphs' = graphsUpdate(graphs, stats')
    /\ samples' = Append(samples, stats'.temp)
    /\ call' = [op |-> "tick", params |-> NoParams, dt |-> TickSize]
    /\ UNCHANGED <<calls, latest, other, otherStats, inputs, language, events>>

\* handleInput(key, value), from a slider's input event
HandleInput(key, value) ==
    /\ events < MaxEvents
    /\ model' = updateParams(model, inputParams(key, value))
    /\ displays' = [displays EXCEPT !.innerText = shown(@, inputParams(key, value))]
    /\ latest' = Provided(inputParams(key, value))
    /\ call' = [op |-> "handleInput", params |-> inputParams(key, value), dt |-> Undefined]
    /\ events' = events + 1
    /\ UNCHANGED <<stats, calls, other, otherStats, scene, graphs, samples, inputs,
                   language>>

\* loadPreset(name), from a click on a preset pill
LoadPreset(name) ==
    /\ events < MaxEvents
    /\ model' = updateParams(model, presetParams(name))
    /\ inputs' = shown(inputs, presetParams(name))
    /\ displays' = [displays EXCEPT !.innerText = shown(@, presetParams(name))]
    /\ latest' = Provided(presetParams(name))
    /\ call' = [op |-> "loadPreset", params |-> presetParams(name), dt |-> Undefined]
    /\ events' = events + 1
    /\ UNCHANGED <<stats, calls, other, otherStats, scene, graphs, samples, language>>

\* setLanguage(lang), from the language switcher: a language without a
\* table changes nothing.
SetLanguage(lang) ==
    /\ events < MaxEvents
    /\ language' = IF lang \in translations THEN lang ELSE language
    /\ call' = [op |-> "setLanguage", params |-> NoParams, dt |-> Undefined]
    /\ events' = events + 1
    /\ UNCHANGED <<model, stats, calls, latest, other, otherStats, scene, graphs,
                   samples, displays, inputs>>

AppNext ==
    \/ Tick
    \/ \E input \in SliderInputs : HandleInput(input[1], input[2])
    \/ \E name \in PresetPills : LoadPreset(name)
    \/ \E lang \in Languages : SetLanguage(lang)

AppSpec == Init /\ [][AppNext]_vars

(***************************************************************************)
(* Properties.                                                             *)
(***************************************************************************)
InfinityInput == Str(InfinityChars)

\* C1's formulas, (a) to (g), as the specification of step lists them.
FluxIncoming(m) == Div(m.solarIntensity, Lit(4, 0))
FluxAbsorbed(m) == Mul(FluxIncoming(m), Sub(Lit(1, 0), m.albedo))
Forcing(m) == Mul(Lit(535, -2), MathLog(Div(m.co2, Lit(280, 0))))
Clamp(x, lo, hi) == MathMax(lo, MathMin(hi, x))
EffectiveEmissivity(m) ==
    Clamp(Sub(Lit(61, -2), Mul(Forcing(m), Lit(5, -3))), Lit(5, -1), Lit(7, -1))
FluxOutgoing(m) ==
    Mul(Mul(EffectiveEmissivity(m), Lit(567, -10)),
        MathPow4(Add(m.temperature, Lit(27315, -2))))
FluxNet(m) == Sub(FluxAbsorbed(m), FluxOutgoing(m))
SteppedTemperature(m, dt) == Add(m.temperature, Mul(Div(FluxNet(m), Lit(50, 0)), dt))

\* C1: a step computes incoming = solarIntensity / 4, absorbed =
\* incoming (1 - albedo), forcing = 5.35 ln(co2 / 280) (0 at co2 = 280),
\* emissivity = clamp(0.61 - 0.005 forcing, 0.5, 0.7), outgoing =
\* emissivity sigma (temperature + 273.15)^4 and net = absorbed - outgoing
\* from the state it is called in, and sets temperature to the old
\* temperature + (net / 50) dt.
C1_StepFormulas ==
    [][call'.op = "step" =>
         /\ stats'.incoming = FluxIncoming(model)
         /\ stats'.absorbed = FluxAbsorbed(model)
         /\ stats'.outgoing = FluxOutgoing(model)
         /\ stats'.netEnergy = FluxNet(model)
         /\ model'.temperature = SteppedTemperature(model, stepSize(call'.dt))
         /\ (model.co2 = Lit(280, 0) => Forcing(model) = Zero)]_vars

\* A step taken at co2 = 280 has moved the temperature.
C1_Witness ==
    /\ call.op = "step"
    /\ model.co2 = Lit(280, 0)
    /\ IsFinite(model.temperature)
    /\ model.temperature # Lit(15, 0)

\* C2: in every reachable state the emissivity that a step uses lies in
\* [0.5, 0.7].
C2_EmissivityInRange ==
    /\ LessEq(Lit(5, -1), emissivity(forcingCO2(model)))
    /\ LessEq(emissivity(forcingCO2(model)), Lit(7, -1))

\* C3: updateParams sets each of co2, albedo, solarIntensity and
\* forestCover that its argument provides to Number(value), whatever the
\* value (a negative albedo is stored as given), and leaves the others.
C3_UpdateParamsOverwrites ==
    [][call'.op = "updateParams" =>
         /\ model'.co2 = IF call'.params.co2 # Undefined
                         THEN ToNumber(call'.params.co2) ELSE model.co2
         /\ model'.albedo = IF call'.params.albedo # Undefined
                            THEN ToNumber(call'.params.albedo) ELSE model.albedo
         /\ model'.solarIntensity = IF call'.params.solar # Undefined
                                    THEN ToNumber(call'.params.solar)
                                    ELSE model.solarIntensity
         /\ model'.forestCover = IF call'.params.forest # Undefined
                                 THEN ToNumber(call'.params.forest)
                                 ELSE model.forestCover
         /\ (call'.params.albedo = Num(Lit(-1, -1)) => model'.albedo = Lit(-1, -1))
         /\ (call'.params.albedo = Null => model'.albedo = Zero)
         /\ (call'.params.albedo = Str(<<"0", ".", "2", "7">>)
               => model'.albedo = Lit(27, -2))
         /\ (call'.params.co2 = Str(<<"2", "8", "0">>) => model'.co2 = Lit(280, 0))
         /\ (call'.params.co2 = Str(<<"-", "5">>) => model'.co2 = Lit(-5, 0))
         /\ (call'.params.solar = InfinityInput => model'.solarIntensity = PosInf)]_vars

\* updateParams has stored a negative albedo and kept the co2 of an earlier
\* call.
C3_Witness ==
    /\ call.op = "updateParams"
    /\ call.params.albedo = Num(Lit(-1, -1))
    /\ call.params.co2 = Undefined
    /\ Less(model.albedo, Zero)
    /\ model.co2 = Lit(280, 0)

\* Number(value) of the last value given for a key, or the constructor's.
LatestOr(key, default) ==
    IF latest[key] = Undefined THEN default ELSE ToNumber(latest[key])

\* C4: temperature starts at 15.0 and only step changes it; step never
\* changes co2, albedo, solarIntensity or forestCover, each of which is at
\* every point Number(value) of the last updateParams that provided it, or
\* the constructor's default.
C4_FrameAndLatest ==
    /\ model.temperature = Lit(15, 0)
    /\ [](/\ model.co2 = LatestOr("co2", constructor.co2)
          /\ model.albedo = LatestOr("albedo", constructor.albedo)
          /\ model.solarIntensity = LatestOr("solar", constructor.solarIntensity)
          /\ model.forestCover = LatestOr("forest", constructor.forestCover))
    /\ [][/\ (model'.temperature # model.temperature => call'.op = "step")
          /\ (call'.op = "step" =>
                /\ model'.co2 = model.co2
                /\ model'.albedo = model.albedo
                /\ model'.solarIntensity = model.solarIntensity
                /\ model'.forestCover = model.forestCover)]_vars

\* A step has moved the temperature after updateParams set the albedo, and
\* the albedo is still the one set.
C4_Witness ==
    /\ call.op = "step"
    /\ model.temperature # Lit(15, 0)
    /\ latest.albedo = Num(Lit(-1, -1))
    /\ latest.co2 = Undefined
    /\ model.albedo = Lit(-1, -1)
    /\ model.co2 = Lit(400, 0)

\* The snapshot holds numbers only, and so do its two balances.
AllFinite(snapshot) ==
    /\ IsFinite(snapshot.temp) /\ IsFinite(snapshot.netEnergy)
    /\ IsFinite(snapshot.absorbed) /\ IsFinite(snapshot.reflected)
    /\ IsFinite(snapshot.outgoing) /\ IsFinite(snapshot.incoming)
    /\ IsFinite(Add(snapshot.absorbed, snapshot.reflected))
    /\ IsFinite(Sub(Sub(snapshot.incoming, snapshot.reflected), snapshot.outgoing))

\* The exponent of the last digit of x, and the largest among the fluxes
\* of a snapshot.
UlpExp(x) == IF x.m = 0 THEN MinExp - 3 ELSE x.e
Larger(i, j) == IF i >= j THEN i ELSE j
TopUlpExp(snapshot) ==
    Larger(Larger(UlpExp(snapshot.incoming), UlpExp(snapshot.absorbed)),
           Larger(UlpExp(snapshot.reflected), UlpExp(snapshot.outgoing)))

\* x and y differ by rounding only: by at most 100 units of the last digit
\* of a number whose last digit has the exponent ulp.
Near(x, y, ulp) ==
    \/ Sub(x, y) = Zero
    \/ /\ IsFinite(Sub(x, y))
       /\ Sub(x, y).e + 3 <= ulp + 2

\* What C5 says of the object step returns, but for its two balances.
SnapshotOf(before, after, snapshot, dt) ==
    /\ snapshot.temp = after.temperature
    /\ snapshot.netEnergy = Sub(snapshot.absorbed, snapshot.outgoing)
    /\ after.temperature = Add(before.temperature, tempChange(snapshot.netEnergy, dt))
    /\ snapshot.outgoing =
         outgoingRad(before, emissivity(forcingCO2(before)), currentTempK(before))
    /\ snapshot.incoming = Div(before.solarIntensity, Lit(4, 0))
    /\ snapshot.absorbed = Mul(snapshot.incoming, Sub(Lit(1, 0), before.albedo))
    /\ snapshot.reflected = Mul(snapshot.incoming, before.albedo)

C6_AnyStepSize ==
    [][call'.op = "step" /\ stats'.netEnergy = Zero
         => model'.temperature = model.temperature]_vars

\* C6, amended: a step whose net energy is 0 leaves the temperature, and
\* with it the whole model, unchanged for any finite dt, so that the next
\* step, whatever its dt, has net energy 0 again.
C6_FiniteStepSize ==
    [][call'.op = "step" /\ stats'.netEnergy = Zero /\ IsFinite(stepSize(call'.dt))
         => /\ model'.temperature = model.temperature
            /\ model' = model
            /\ \A dt \in StepSizes : step(model', dt).ret.netEnergy = Zero]_vars

\* A step with net energy 0 has followed another one.
C6_Witness ==
    /\ call.op = "step"
    /\ IsFinite(stepSize(call.dt))
    /\ stats.netEnergy = Zero
    /\ calls >= 3
    /\ latest = balanceParams
    /\ model.temperature = Lit(15, 0)

NonFinite(snapshot) ==
    \/ ~IsFinite(snapshot.temp) \/ ~IsFinite(snapshot.netEnergy)
    \/ ~IsFinite(snapshot.absorbed) \/ ~IsFinite(snapshot.reflected)
    \/ ~IsFinite(snapshot.outgoing) \/ ~IsFinite(snapshot.incoming)

\* C9, as stated: a step taken while co2 <= 0 yields a temperature and a
\* snapshot that are not finite.
C9_NonFiniteAtOrBelowZero ==
    [][call'.op = "step" /\ LessEq(model.co2, Zero)
         => ~IsFinite(model'.temperature) /\ NonFinite(stats')]_vars

\* C9, amended: a step taken while co2 < 0 yields NaN for the outgoing
\* radiation, the net energy and the temperature; a step taken while co2 = 0
\* has its emissivity clamped to 0.7 and computes what it computes for a
\* small positive co2 such as 1e-9, finite values where those are finite.
C9_NaNBelowZero ==
    [][call'.op = "step" =>
         /\ (Less(model.co2, Zero) =>
               /\ IsNaN(stats'.outgoing) /\ IsNaN(stats'.netEnergy)
               /\ IsNaN(stats'.temp) /\ IsNaN(model'.temperature))
         /\ (model.co2 = Zero =>
               /\ emissivity(forcingCO2(model)) = Lit(7, -1)
               /\ stats' = step([model EXCEPT !.co2 = Lit(1, -9)], call'.dt).ret
               /\ model'.temperature =
                    step([model EXCEPT !.co2 = Lit(1, -9)], call'.dt).this.temperature)]_vars

\* A step taken while co2 = 0 has left the temperature and the snapshot
\* finite.
C9_Witness ==
    /\ call.op = "step"
    /\ model.co2 = Zero
    /\ IsFinite(model.temperature)
    /\ ~NonFinite(stats)

\* C10: once the temperature is NaN or an infinity, it is so after every
\* later call, whatever updateParams has set in between.
C10_NoRecovery ==
    [][~IsFinite(model.temperature) => ~IsFinite(model'.temperature)]_vars

\* A step taken after a preset restored valid parameters has left the
\* temperature non-finite.
C10_Witness ==
    /\ call.op = "step"
    /\ ~IsFinite(model.temperature)
    /\ latest = presetParams("modern")
    /\ model.co2 = Lit(420, 0)

\* The length of the temperature chart's window after n updates.
WindowLength(n) == IF n < 50 THEN n ELSE 50

\* Position i of the window after n updates is update number n - min(n, 50) + i.
Arrival(n, i) == n - WindowLength(n) + i

\* C11: after n calls of ClimateGraphs.update the temperature chart's labels
\* and data both have length min(n, 50); position by position they are the
\* last min(n, 50) of the numbers 1..n and the temperatures of those updates,
\* in the order of arrival; and an update that finds 50 points drops the
\* first point of each array and nothing else.
C11_RollingWindow ==
    /\ [](/\ graphs.timeLabel = Len(samples)
          /\ Len(graphs.labels) = WindowLength(Len(samples))
          /\ Len(graphs.data) = WindowLength(Len(samples))
          /\ \A i \in 1..WindowLength(Len(samples)) :
                /\ graphs.labels[i] = Arrival(Len(samples), i)
                /\ graphs.data[i] = samples[Arrival(Len(samples), i)])
    /\ [][Len(graphs.data) = 50 /\ Len(samples') = Len(samples) + 1
            => /\ graphs'.labels = Append(Tail(graphs.labels), Len(samples'))
               /\ graphs'.data = Append(Tail(graphs.data), samples'[Len(samples')])]_vars

\* The 52nd update has been made: the window starts at the third sample,
\* which differs from the first.
C11_Witness ==
    /\ Len(samples) = 52
    /\ Len(graphs.data) = 50
    /\ graphs.labels[1] = 3
    /\ graphs.data[1] = samples[3]
    /\ samples[3] # samples[1]
    /\ graphs.labels[50] = 52

\* The model a tick steps when every parameter change made so far is in
\* force: the constructor's model with the last value given for each key
\* and the temperature reached.
InForce ==
    [constructor EXCEPT
       !.co2 = LatestOr("co2", @),
       !.albedo = LatestOr("albedo", @),
       !.solarIntensity = LatestOr("solar", @),
       !.forestCover = LatestOr("forest", @),
       !.temperature = model.temperature]

\* C12: a tick is one step(0.5) of the model with all the parameter changes
\* made before it in force; the temperature display, the scene and the
\* temperature chart of that tick receive the temperature that step
\* produced, the scene with the co2 and forestCover in force; and the slider,
\* preset and language handlers advance neither the model's temperature nor
\* the snapshot, scene or charts.
C12_TickIsOneWholeStep ==
    [][/\ (call'.op = "tick" =>
             /\ model' = step(InForce, Num(Lit(5, -1))).this
             /\ stats' = step(InForce, Num(Lit(5, -1))).ret
             /\ stats'.temp = model'.temperature
             /\ displays'.innerText.temp = toFixed(model'.temperature, 1)
             /\ scene'.simulationState =
                  [temp |-> model'.temperature,
                   co2 |-> LatestOr("co2", constructor.co2),
                   forest |-> LatestOr("forest", constructor.forestCover)]
             /\ graphs'.timeLabel = graphs.timeLabel + 1
             /\ graphs'.data[Len(graphs'.data)] = model'.temperature
             /\ graphs'.balance = <<stats'.absorbed, stats'.outgoing>>)
       /\ (call'.op # "tick" =>
             /\ model'.temperature = model.temperature
             /\ UNCHANGED <<stats, scene, graphs>>)]_vars

\* A tick has followed a move of the co2 slider to 600: the temperature is
\* not that of the tick before, and display, scene and chart hold it.
C12_Witness ==
    /\ call.op = "tick"
    /\ latest.co2 = Str(<<"6", "0", "0">>)
    /\ scene.simulationState.co2 = Lit(600, 0)
    /\ Len(samples) > 1
    /\ samples[Len(samples) - 1] # model.temperature
    /\ toFixed(samples[Len(samples) - 1], 1) # displays.innerText.temp
    /\ scene.simulationState.temp = model.temperature
    /\ graphs.data[Len(graphs.data)] = model.temperature
=============================================================================
